---- MODULE Spec2Model ----
(***************************************************************************)
(* A model of the rule-based KYC text simplifier:                          *)
(*   simplifier.py    EmailSimplifier   (the rule engine)                  *)
(*   api.py           simplify          (one shared engine, many requests) *)
(*   json_convert.py  JsonSimplifier    (the JSON payload walker)          *)
(*                                                                         *)
(* A text is a sequence of one-character strings, so that matching,        *)
(* splitting and joining are computed character by character as Python's   *)
(* re and str do.  A dict is a sequence of <<key, value>> pairs in         *)
(* insertion order.                                                        *)
(***************************************************************************)
EXTENDS Integers, Sequences, FiniteSets, TLC

VARIABLES
    config,     \* EmailSimplifier.config: the loaded configuration document
    self,       \* the engine's rule fields, set by __init__
    pc,         \* per caller: where its simplify_text call stands
    arg,        \* per caller: the text argument of the call
    text,       \* per caller: the local variable text
    ri,         \* per caller: index of the next rule of the running pass
    origin,     \* per caller, per character of text: 0 when the character
                \* was in the text when the running pass began, k when rule k
                \* of the running pass inserted it
    events,     \* per caller: <<pass, rule, origin>> for every character a
                \* rule's match consumed that a rule of the same pass inserted
    log,        \* per caller: the passes completed so far, with their output
    cleaned,    \* per caller: per sentence candidate, what the rewrite emitted
    scan,       \* per caller: the last re.sub of the running pass: the text it
                \* was given, the term, and the match positions it replaced
    loaded,     \* convert_json: the JSON document as _load_json returned it
    payload,    \* convert_json: the document object, which _simplify_entry
                \* writes to in place
    jpc,        \* convert_json: "init", "loaded", "returned", "raised", "written"
    outcome     \* convert_json: what simplify_payload returned, what was written

vars == <<config, self, pc, arg, text, ri, origin, events, log, cleaned, scan,
          loaded, payload, jpc, outcome>>

engineVars == <<pc, arg, text, ri, origin, events, log, cleaned, scan>>
jsonVars == <<loaded, payload, jpc, outcome>>

----------------------------------------------------------------------------
(* Bounds of the model *)

\* longest generated input text, in characters
MaxLen == 3
\* number of concurrent callers of the shared engine
NumCallers == 2
\* deepest nesting of a generated JSON document
MaxDepth == 3

----------------------------------------------------------------------------
(* Characters *)

LowerLetters ==
    <<"a","b","c","d","e","f","g","h","i","j","k","l","m",
      "n","o","p","q","r","s","t","u","v","w","x","y","z">>

UpperLetters ==
    <<"A","B","C","D","E","F","G","H","I","J","K","L","M",
      "N","O","P","Q","R","S","T","U","V","W","X","Y","Z">>

Digits == {"0","1","2","3","4","5","6","7","8","9"}

Range(s) == {s[i] : i \in DOMAIN s}

\* \s
IsSpace(c) == c \in {" ", "\t", "\n", "\r", "\f"}

\* \w
IsWord(c) == c \in Range(LowerLetters) \cup Range(UpperLetters) \cup Digits \cup {"_"}

\* re.IGNORECASE compares characters by their lower-case form
Lower(c) ==
    IF c \in Range(UpperLetters)
    THEN LowerLetters[CHOOSE i \in DOMAIN UpperLetters : UpperLetters[i] = c]
    ELSE c

Terminal == {".", "?", "!"}

----------------------------------------------------------------------------
(* Sequence helpers *)

RECURSIVE ConcatRange(_, _, _)
\* piece[lo] \o ... \o piece[hi], by halves
ConcatRange(piece, lo, hi) ==
    IF lo > hi THEN <<>>
    ELSE IF lo = hi THEN piece[lo]
    ELSE LET mid == (lo + hi) \div 2
         IN  ConcatRange(piece, lo, mid) \o ConcatRange(piece, mid + 1, hi)

\* piece[1] \o ... \o piece[n]
ConcatTo(piece, n) == ConcatRange(piece, 1, n)

Min(S) == CHOOSE x \in S : \A y \in S : x <= y

\* str.strip()
Strip(t) ==
    LET keep == {i \in DOMAIN t : ~IsSpace(t[i])}
    IN  IF keep = {} THEN <<>>
        ELSE SubSeq(t, Min(keep), CHOOSE x \in keep : \A y \in keep : y <= x)

\* re.sub(r"\s+", " ", text): every run of whitespace becomes one space
CollapseWhitespace(t) ==
    ConcatTo([i \in DOMAIN t |->
                 IF ~IsSpace(t[i]) THEN <<t[i]>>
                 ELSE IF i > 1 /\ IsSpace(t[i - 1]) THEN <<>> ELSE <<" ">>],
             Len(t))

\* NormalizeWhitespace without the re.sub: runs of whitespace are kept
NormalizeWhitespaceStripOnly(t) == Strip(t)

NormalizeWhitespace(t) == Strip(CollapseWhitespace(t))

----------------------------------------------------------------------------
(* Substitution: re.sub(pattern, repl, text, flags=re.IGNORECASE) *)

\* \b at the gap before t[i]: exactly one of its two neighbours is a word
\* character (the ends of the text count as non-word)
Boundary(t, i) ==
    LET before == i > 1 /\ IsWord(t[i - 1])
        after  == i <= Len(t) /\ IsWord(t[i])
    IN  before # after

\* re.escape(raw) matches raw literally, ignoring case, at t[i..]; with
\* bounded, the pattern is \b raw \b
MatchAt(t, i, raw, bounded) ==
    /\ i + Len(raw) - 1 <= Len(t)
    /\ \A j \in 1..Len(raw) : Lower(t[i + j - 1]) = Lower(raw[j])
    /\ bounded => Boundary(t, i) /\ Boundary(t, i + Len(raw))

RECURSIVE Leftmost(_, _, _)
\* of the positions in found, those a left-to-right scan keeps when each
\* kept position makes the scan resume width positions later
Leftmost(found, from, width) ==
    LET ahead == {m \in found : m >= from}
    IN  IF ahead = {} THEN {}
        ELSE {Min(ahead)} \cup Leftmost(found, Min(ahead) + width, width)

\* the start positions of the matches re.sub replaces: leftmost first, not
\* overlapping; after an empty match the scan resumes one character later,
\* so every empty match is kept
MatchStarts(t, raw, bounded) ==
    LET found == {i \in 1..(Len(t) + 1) : MatchAt(t, i, raw, bounded)}
    IN  IF Len(raw) = 0 THEN found ELSE Leftmost(found, 1, Len(raw))

\* s with the n elements at each start replaced by ins
Splice(s, starts, n, ins) ==
    LET covered(i) == \E m \in starts : m <= i /\ i < m + n
    IN  ConcatTo([i \in 1..(Len(s) + 1) |->
                     (IF i \in starts THEN ins ELSE <<>>)
                     \o (IF i <= Len(s) /\ ~covered(i) THEN <<s[i]>> ELSE <<>>)],
                 Len(s) + 1)

\* simplifier.py:34 and :44 (bounded), :39 (not bounded)
Sub(t, raw, simple, bounded) ==
    Splice(t, MatchStarts(t, raw, bounded), Len(raw), simple)

RECURSIVE ApplyWordMapFrom(_, _, _)
ApplyWordMapFrom(t, mapping, k) ==
    IF k > Len(mapping) THEN t
    ELSE ApplyWordMapFrom(Sub(t, mapping[k][1], mapping[k][2], TRUE), mapping, k + 1)

\* _apply_word_map: for raw, simple in mapping.items(): text = re.sub(...)
ApplyWordMap(t, mapping) == ApplyWordMapFrom(t, mapping, 1)

RECURSIVE ApplyPatternsFrom(_, _, _)
ApplyPatternsFrom(t, patterns, k) ==
    IF k > Len(patterns) THEN t
    ELSE ApplyPatternsFrom(Sub(t, patterns[k].search, patterns[k].replace, FALSE),
                           patterns, k + 1)

\* _apply_patterns: for p in patterns: text = re.sub(re.escape(p["search"]), ...)
ApplyPatterns(t, patterns) == ApplyPatternsFrom(t, patterns, 1)

\* _apply_kyc_doc_rules
ApplyKycDocRules(s, t) == ApplyWordMap(t, s.kyc_documents)

----------------------------------------------------------------------------
(* Sentence rewrite *)

RECURSIVE SplitFrom(_, _, _)
\* the pieces of t[start..] between the positions in cuts, where the cut at
\* position b removes t[b..skip[b]]
SplitFrom(t, start, skip) ==
    LET cuts == {b \in DOMAIN skip : b >= start}
    IN  IF cuts = {} THEN <<SubSeq(t, start, Len(t))>>
        ELSE LET b == Min(cuts)
             IN  <<SubSeq(t, start, b - 1)>> \o SplitFrom(t, skip[b] + 1, skip)

\* the last position of the whitespace run that begins at i
RunEnd(t, i) ==
    Min({j \in i..Len(t) : j = Len(t) \/ ~IsSpace(t[j + 1])})

\* re.split(r"(?<=[.!?])\s+", text)
SplitSentences(t) ==
    LET breaks == {i \in 2..Len(t) : IsSpace(t[i]) /\ t[i - 1] \in Terminal}
    IN  SplitFrom(t, 1, [b \in breaks |-> RunEnd(t, b)])

\* s.split(",")
SplitOnComma(t) ==
    SplitFrom(t, 1, [b \in {i \in DOMAIN t : t[i] = ","} |-> b])

\* s.split(): the maximal runs of non-whitespace characters
Words(t) ==
    LET starts == {i \in DOMAIN t :
                      ~IsSpace(t[i]) /\ (i = 1 \/ IsSpace(t[i - 1]))}
        stop(i) == Min({j \in i..Len(t) : j = Len(t) \/ IsSpace(t[j + 1])})
    IN  ConcatTo([i \in DOMAIN t |->
                     IF i \in starts THEN <<SubSeq(t, i, stop(i))>> ELSE <<>>],
                 Len(t))

\* sep.join(parts)
Join(parts, sep) ==
    ConcatTo([i \in DOMAIN parts |->
                 IF i = 1 THEN parts[i] ELSE sep \o parts[i]],
             Len(parts))

\* s.endswith(('.', '?', '!'))
EndsWithTerminal(t) == Len(t) > 0 /\ t[Len(t)] \in Terminal

\* TooLong with "or" for "and"
TooLongEither(s, limit) == Len(Words(s)) > limit \/ "," \in Range(s)

\* the test of simplifier.py:53
TooLong(s, limit) == Len(Words(s)) > limit /\ "," \in Range(s)

\* simplifier.py:53-59: what one stripped, non-empty candidate appends to
\* cleaned
RewriteSentence(s, limit) ==
    IF TooLong(s, limit)
    THEN LET parts == [i \in DOMAIN SplitOnComma(s) |-> Strip(SplitOnComma(s)[i])]
         IN  <<parts[1] \o <<".">>>>
             \o (IF Len(parts) > 1
                 THEN <<Join(Tail(parts), <<",", " ">>) \o <<".">>>>
                 ELSE <<>>)
    ELSE <<IF EndsWithTerminal(s) THEN s ELSE s \o <<".">>>>

\* simplifier.py:48-52: the stripped, non-empty sentence candidates
Candidates(t) ==
    LET stripped == [i \in DOMAIN SplitSentences(t) |-> Strip(SplitSentences(t)[i])]
    IN  SelectSeq(stripped, LAMBDA s : s # <<>>)

\* the list cleaned, grouped by the candidate each entry came from
Cleaned(t, limit) ==
    [i \in DOMAIN Candidates(t) |->
        [s |-> Candidates(t)[i], out |-> RewriteSentence(Candidates(t)[i], limit)]]

\* _rewrite_sentences
RewriteSentences(s, t) ==
    LET cl == Cleaned(t, s.sentence_length_limit)
    IN  Join(ConcatTo([i \in DOMAIN cl |-> cl[i].out], Len(cl)), <<" ">>)

----------------------------------------------------------------------------
(* The engine *)

DefaultSentenceLengthLimit == 22

\* dict.get(key, default)
Get(d, key, default) == IF key \in DOMAIN d THEN d[key] ELSE default

\* EmailSimplifierInit with another default for sentence_length_limit
EmailSimplifierInitLimitOne(cfg) ==
    [jargon_map            |-> Get(cfg, "jargon_map", <<>>),
     tone_map              |-> Get(cfg, "tone_map", <<>>),
     patterns              |-> Get(cfg, "patterns", <<>>),
     kyc_documents         |-> Get(cfg, "kyc_documents", <<>>),
     sentence_length_limit |-> Get(cfg, "sentence_length_limit", 1)]

\* EmailSimplifier.__init__
EmailSimplifierInit(cfg) ==
    [jargon_map            |-> Get(cfg, "jargon_map", <<>>),
     tone_map              |-> Get(cfg, "tone_map", <<>>),
     patterns              |-> Get(cfg, "patterns", <<>>),
     kyc_documents         |-> Get(cfg, "kyc_documents", <<>>),
     sentence_length_limit |-> Get(cfg, "sentence_length_limit",
                                   DefaultSentenceLengthLimit)]

\* PassOrder with the pattern pass called first
PassOrderPatternsFirst == <<"patterns", "jargon", "tone", "kyc", "rewrite">>

\* the passes of simplify_text lines 24-28, in the order they are called
PassOrder == <<"jargon", "tone", "patterns", "kyc", "rewrite">>

\* what one pass of simplify_text does to the text
RunPass(s, p, t) ==
    CASE p = "jargon"   -> ApplyWordMap(t, s.jargon_map)
      [] p = "tone"     -> ApplyWordMap(t, s.tone_map)
      [] p = "patterns" -> ApplyPatterns(t, s.patterns)
      [] p = "kyc"      -> ApplyKycDocRules(s, t)
      [] p = "rewrite"  -> RewriteSentences(s, t)

RECURSIVE RunPasses(_, _, _)
RunPasses(s, t, k) ==
    IF k > Len(PassOrder) THEN t
    ELSE RunPasses(s, RunPass(s, PassOrder[k], t), k + 1)

\* simplify_text as a function of the engine and the text
SimplifyText(s, t) ==
    IF t = <<>> THEN t
    ELSE NormalizeWhitespace(RunPasses(s, NormalizeWhitespace(t), 1))

----------------------------------------------------------------------------
(* simplify_text, one step at a time, for each caller of the shared engine *)

Callers == 1..NumCallers

SubstitutionPasses == {"jargon", "tone", "patterns", "kyc"}

\* Rules with the return inside the loop: only the first rule is applied
RulesFirstOnly(s, p) ==
    LET all == CASE p = "jargon"   -> s.jargon_map
                 [] p = "tone"     -> s.tone_map
                 [] p = "kyc"      -> s.kyc_documents
                 [] OTHER          -> <<>>
    IN  IF p = "patterns"
        THEN [k \in DOMAIN s.patterns \cap {1} |->
                 [raw |-> s.patterns[k].search, simple |-> s.patterns[k].replace]]
        ELSE [k \in DOMAIN all \cap {1} |-> [raw |-> all[k][1], simple |-> all[k][2]]]

\* the rules the loop of a substitution pass iterates over, in order
Rules(s, p) ==
    CASE p = "jargon"   -> [k \in DOMAIN s.jargon_map |->
                              [raw |-> s.jargon_map[k][1], simple |-> s.jargon_map[k][2]]]
      [] p = "tone"     -> [k \in DOMAIN s.tone_map |->
                              [raw |-> s.tone_map[k][1], simple |-> s.tone_map[k][2]]]
      [] p = "patterns" -> [k \in DOMAIN s.patterns |->
                              [raw |-> s.patterns[k].search, simple |-> s.patterns[k].replace]]
      [] p = "kyc"      -> [k \in DOMAIN s.kyc_documents |->
                              [raw |-> s.kyc_documents[k][1],
                               simple |-> s.kyc_documents[k][2]]]
      [] OTHER          -> <<>>

\* Bounded without the \b of the word-map passes
BoundedNever(p) == FALSE

\* _apply_word_map and _apply_kyc_doc_rules wrap the term in \b...\b,
\* _apply_patterns does not
Bounded(p) == p # "patterns"

\* the pass simplify_text calls after pass p; "final" is line 29
NextPass(p) ==
    LET k == CHOOSE i \in DOMAIN PassOrder : PassOrder[i] = p
    IN  IF k < Len(PassOrder) THEN PassOrder[k + 1] ELSE "final"

Zeros(t) == [i \in DOMAIN t |-> 0]

\* no re.sub has run
NoScan == [before |-> <<>>, raw |-> <<>>, starts |-> {}]

\* a caller enters simplify_text(t), for some text t of inputs
Call(c, inputs) ==
    /\ pc[c] = "idle"
    /\ \E t \in inputs :
          /\ arg' = [arg EXCEPT ![c] = t]
          /\ text' = [text EXCEPT ![c] = t]
    /\ pc' = [pc EXCEPT ![c] = "entered"]
    /\ UNCHANGED <<config, self, ri, origin, events, log, cleaned, scan, jsonVars>>

\* line 21: if not text: return text
EarlyReturn(c) ==
    /\ pc[c] = "entered"
    /\ text[c] = <<>>
    /\ pc' = [pc EXCEPT ![c] = "done"]
    /\ UNCHANGED <<config, self, arg, text, ri, origin, events, log, cleaned, scan, jsonVars>>

\* line 22
Normalize(c) ==
    /\ pc[c] = "entered"
    /\ text[c] # <<>>
    /\ LET t == NormalizeWhitespace(text[c])
       IN  /\ text' = [text EXCEPT ![c] = t]
           /\ origin' = [origin EXCEPT ![c] = Zeros(t)]
           /\ log' = [log EXCEPT ![c] = Append(@, [pass |-> "normalize", out |-> t])]
    /\ ri' = [ri EXCEPT ![c] = 1]
    /\ pc' = [pc EXCEPT ![c] = PassOrder[1]]
    /\ UNCHANGED <<config, self, arg, events, cleaned, scan, jsonVars>>

\* ApplyRule that pops the rule it applies off the engine's shared table
ApplyRuleConsuming(c) ==
    /\ pc[c] \in SubstitutionPasses
    /\ ri[c] <= Len(Rules(self, pc[c]))
    /\ LET r      == Rules(self, pc[c])[ri[c]]
           starts == MatchStarts(text[c], r.raw, Bounded(pc[c]))
       IN  /\ text' = [text EXCEPT ![c] = Sub(@, r.raw, r.simple, Bounded(pc[c]))]
           /\ origin' = [origin EXCEPT ![c] =
                            Splice(@, starts, Len(r.raw),
                                   [j \in DOMAIN r.simple |-> ri[c]])]
           /\ scan' = [scan EXCEPT ![c] =
                          [before |-> text[c], raw |-> r.raw, starts |-> starts]]
    /\ self' = [self EXCEPT !.jargon_map = IF pc[c] = "jargon" THEN Tail(@) ELSE @]
    /\ ri' = [ri EXCEPT ![c] = IF pc[c] = "jargon" THEN @ ELSE @ + 1]
    /\ UNCHANGED <<config, pc, arg, events, log, cleaned, jsonVars>>

\* one iteration of the loop of lines 33-34, 38-39 or 43-44
ApplyRule(c) ==
    /\ pc[c] \in SubstitutionPasses
    /\ ri[c] <= Len(Rules(self, pc[c]))
    /\ LET r      == Rules(self, pc[c])[ri[c]]
           starts == MatchStarts(text[c], r.raw, Bounded(pc[c]))
           eaten  == {i \in DOMAIN text[c] :
                         \E m \in starts : m <= i /\ i < m + Len(r.raw)}
       IN  /\ text' = [text EXCEPT ![c] = Sub(@, r.raw, r.simple, Bounded(pc[c]))]
           /\ origin' = [origin EXCEPT ![c] =
                            Splice(@, starts, Len(r.raw),
                                   [j \in DOMAIN r.simple |-> ri[c]])]
           /\ events' = [events EXCEPT ![c] =
                            @ \cup {<<pc[c], ri[c], origin[c][i]>> :
                                        i \in {j \in eaten : origin[c][j] > 0}}]
           /\ scan' = [scan EXCEPT ![c] =
                          [before |-> text[c], raw |-> r.raw, starts |-> starts]]
    /\ ri' = [ri EXCEPT ![c] = @ + 1]
    /\ UNCHANGED <<config, self, pc, arg, log, cleaned, jsonVars>>

\* the loop is exhausted: return text, and simplify_text calls the next pass
EndPass(c) ==
    /\ pc[c] \in SubstitutionPasses
    /\ ri[c] > Len(Rules(self, pc[c]))
    /\ log' = [log EXCEPT ![c] = Append(@, [pass |-> pc[c], out |-> text[c]])]
    /\ origin' = [origin EXCEPT ![c] = Zeros(text[c])]
    /\ ri' = [ri EXCEPT ![c] = 1]
    /\ pc' = [pc EXCEPT ![c] = NextPass(pc[c])]
    /\ UNCHANGED <<config, self, arg, text, events, cleaned, scan, jsonVars>>

\* line 28
Rewrite(c) ==
    /\ pc[c] = "rewrite"
    /\ LET t == RewriteSentences(self, text[c])
       IN  /\ text' = [text EXCEPT ![c] = t]
           /\ origin' = [origin EXCEPT ![c] = Zeros(t)]
           /\ log' = [log EXCEPT ![c] = Append(@, [pass |-> "rewrite", out |-> t])]
    /\ cleaned' = [cleaned EXCEPT ![c] = Cleaned(text[c], self.sentence_length_limit)]
    /\ ri' = [ri EXCEPT ![c] = 1]
    /\ pc' = [pc EXCEPT ![c] = NextPass("rewrite")]
    /\ UNCHANGED <<config, self, arg, events, scan, jsonVars>>

\* line 29
FinalNormalize(c) ==
    /\ pc[c] = "final"
    /\ LET t == NormalizeWhitespace(text[c])
       IN  /\ text' = [text EXCEPT ![c] = t]
           /\ origin' = [origin EXCEPT ![c] = Zeros(t)]
           /\ log' = [log EXCEPT ![c] = Append(@, [pass |-> "normalize", out |-> t])]
    /\ pc' = [pc EXCEPT ![c] = "done"]
    /\ UNCHANGED <<config, self, arg, ri, events, cleaned, scan, jsonVars>>

\* line 30 (and the return of line 21): the caller has the result in
\* text[c]; its locals are gone
Return(c) ==
    /\ pc[c] = "done"
    /\ pc' = [pc EXCEPT ![c] = "idle"]
    /\ arg' = [arg EXCEPT ![c] = <<>>]
    /\ text' = [text EXCEPT ![c] = <<>>]
    /\ ri' = [ri EXCEPT ![c] = 1]
    /\ origin' = [origin EXCEPT ![c] = <<>>]
    /\ events' = [events EXCEPT ![c] = {}]
    /\ log' = [log EXCEPT ![c] = <<>>]
    /\ cleaned' = [cleaned EXCEPT ![c] = <<>>]
    /\ scan' = [scan EXCEPT ![c] = NoScan]
    /\ UNCHANGED <<config, self, jsonVars>>

----------------------------------------------------------------------------
(* Configuration documents and input texts *)

\* the characters of the generated input texts
InputChars == {"a", "B", " ", ",", "."}

\* every text of at most n characters over chars
Texts(chars, n) == UNION {[1..k -> chars] : k \in 0..n}

\* a configuration document with no keys (an empty YAML file loads as {})
EmptyConfig == <<>>

\* spec.md section 8, "Sentence splitting on long comma sentence"
LongCommaSentence ==
    <<"T","h","i","s"," ","i","s"," ","a"," ","v","e","r","y"," ","l","o","n","g"," ",
      "s","e","n","t","e","n","c","e"," ","w","i","t","h"," ","m","a","n","y"," ",
      "w","o","r","d","s",","," ","a","n","d"," ","a"," ","s","e","c","o","n","d"," ",
      "c","l","a","u","s","e",".">>

\* spec.md section 8, "Whole-word boundary"
IdentificationId ==
    <<"i","d","e","n","t","i","f","i","c","a","t","i","o","n"," ","i","d">>

\* twenty-three words and a comma
TwentyThreeWords ==
    [i \in 1..47 |-> IF i = 46 THEN "," ELSE IF i % 2 = 1 THEN "a" ELSE " "]

\* whitespace other than single spaces
WhitespaceTexts ==
    {<<" ", "\n">>, <<"\t">>, <<"a", "\n", "\t", "B">>, <<" ", "a", ".", " ", " ", "B", "\n">>}

ExampleTexts == {LongCommaSentence, IdentificationId, TwentyThreeWords} \cup WhitespaceTexts

Inputs == Texts(InputChars, MaxLen) \cup ExampleTexts

Configs ==
    { EmptyConfig,
      \* a rule whose replacement is a later rule's term
      "jargon_map" :> << <<<<"a">>, <<"b">>>>, <<<<"b">>, <<"c">>>> >>,
      \* the same, in the pattern list
      "patterns" :> << [search |-> <<"a">>, replace |-> <<"a", " ", "b">>],
                       [search |-> <<"b">>, replace |-> <<"c">>] >>,
      \* one term in the jargon map and in the pattern list
      ("jargon_map" :> << <<<<"a">>, <<"b">>>> >>)
         @@ ("patterns" :> << [search |-> <<"a">>, replace |-> <<"c">>],
                              [search |-> <<"b">>, replace |-> <<"a", ",", " ", "a">>] >>),
      \* every table, each reading what the one before wrote
      ("jargon_map" :> << <<<<"a">>, <<"b">>>> >>)
         @@ ("tone_map" :> << <<<<"b">>, <<"c", " ", "d">>>> >>)
         @@ ("patterns" :> << [search |-> <<"c", " ">>, replace |-> <<"e">>] >>)
         @@ ("kyc_documents" :> << <<<<"e", "d">>, <<"a", ",", "b">>>> >>)
         @@ ("sentence_length_limit" :> 1),
      \* spec.md section 8
      "jargon_map" :> << <<<<"i", "d">>, <<"i","d","e","n","t","i","t","y">>>> >>,
      "sentence_length_limit" :> 5,
      "sentence_length_limit" :> 1,
      "sentence_length_limit" :> 2,
      \* a pattern with an empty search string
      "patterns" :> << [search |-> <<>>, replace |-> <<"b">>] >>,
      \* a multi-word term, and a term that is no word
      ("jargon_map" :> << <<<<"a", " ", "b">>, <<"c">>>> >>)
         @@ ("kyc_documents" :> << <<<<"a", ".">>, <<"b", "!">>>> >>)
    }

----------------------------------------------------------------------------
(* json_convert.py: JSON values and JsonSimplifier *)

\* a JSON null
Null == [tag |-> "null"]

JStr(t) == [tag |-> "str", val |-> t]
JNum(n) == [tag |-> "num", val |-> n]
\* a list holds its items in order; an object maps its keys to values
JList(items) == [tag |-> "list", items |-> items]
JObj(fields) == [tag |-> "obj", fields |-> fields]

\* the exception of json_convert.py:55
TypeError == [tag |-> "TypeError"]

\* JsonSimplifier.__init__ with its default field names
JsonSimplifierInit(cfg) ==
    [simplifier   |-> EmailSimplifierInit(cfg),
     text_field   |-> "text",
     output_field |-> "simplified_text"]

\* _is_container
IsContainer(v) == v.tag \in {"list", "obj"}

RECURSIVE SimplifyEntry(_, _)
RECURSIVE SimplifyItems(_, _, _)
RECURSIVE SimplifyPayload(_, _)

\* SimplifyEntry that leaves a non-string text field alone
SimplifyEntryLenient(js, entry) ==
    IF entry.tag = "obj" /\ js.text_field \in DOMAIN entry.fields
    THEN IF entry.fields[js.text_field].tag # "str"
         THEN [val |-> entry, raised |-> FALSE]
         ELSE [val |-> JObj((js.output_field :>
                               JStr(SimplifyText(js.simplifier,
                                                 entry.fields[js.text_field].val)))
                            @@ entry.fields),
               raised |-> FALSE]
    ELSE IF entry.tag = "list"
    THEN LET r == SimplifyItems(js, entry.items, 1)
         IN  [val |-> JList(r.val), raised |-> r.raised]
    ELSE [val |-> entry, raised |-> FALSE]

\* SimplifyEntry that does not walk a list inside a list
SimplifyEntryShallow(js, entry) ==
    IF entry.tag = "obj" /\ js.text_field \in DOMAIN entry.fields
    THEN IF entry.fields[js.text_field].tag # "str"
         THEN [val |-> entry, raised |-> TRUE]
         ELSE [val |-> JObj((js.output_field :>
                               JStr(SimplifyText(js.simplifier,
                                                 entry.fields[js.text_field].val)))
                            @@ entry.fields),
               raised |-> FALSE]
    ELSE [val |-> entry, raised |-> FALSE]

\* _simplify_entry: val is the entry as the call leaves it (the returned
\* entry is the argument itself, written to in place), raised whether the
\* call raised TypeError
SimplifyEntry(js, entry) ==
    IF entry.tag = "obj" /\ js.text_field \in DOMAIN entry.fields
    THEN IF entry.fields[js.text_field].tag # "str"
         THEN [val |-> entry, raised |-> TRUE]
         ELSE [val |-> JObj((js.output_field :>
                               JStr(SimplifyText(js.simplifier,
                                                 entry.fields[js.text_field].val)))
                            @@ entry.fields),
               raised |-> FALSE]
    ELSE IF entry.tag = "list"
    THEN LET r == SimplifyItems(js, entry.items, 1)
         IN  [val |-> JList(r.val), raised |-> r.raised]
    ELSE [val |-> entry, raised |-> FALSE]

\* [self._simplify_entry(x) for x in items], from item k on: the
\* comprehension stops at the first item that raises
SimplifyItems(js, items, k) ==
    IF k > Len(items) THEN [val |-> items, raised |-> FALSE]
    ELSE LET r == SimplifyEntry(js, items[k])
         IN  IF r.raised
             THEN [val |-> [items EXCEPT ![k] = r.val], raised |-> TRUE]
             ELSE SimplifyItems(js, [items EXCEPT ![k] = r.val], k + 1)

\* simplify_payload, with val and raised as for SimplifyEntry (an object of
\* the model has at most one container among its values, so the order in
\* which the comprehension of line 44 visits them does not show)
SimplifyPayload(js, v) ==
    IF v.tag = "list"
    THEN LET r == SimplifyItems(js, v.items, 1)
         IN  [val |-> JList(r.val), raised |-> r.raised]
    ELSE IF v.tag = "obj"
    THEN LET walk == [k \in DOMAIN v.fields |->
                         IF IsContainer(v.fields[k])
                         THEN SimplifyPayload(js, v.fields[k])
                         ELSE [val |-> v.fields[k], raised |-> FALSE]]
         IN  [val |-> JObj([k \in DOMAIN v.fields |-> walk[k].val]),
              raised |-> \E k \in DOMAIN v.fields : walk[k].raised]
    ELSE [val |-> v, raised |-> FALSE]

\* the texts of the generated documents
TextA == JStr(<<"a">>)
TextB == JStr(<<"B", " ", "a">>)

\* the innermost values of the generated documents
Leaves ==
    { TextA, JNum(7), JList(<<>>), JObj(<<>>),
      JObj("text" :> TextA),
      JObj("text" :> JNum(7)),
      JObj(("text" :> TextB) @@ ("simplified_text" :> JStr(<<"o", "l", "d">>))) }

\* v inside a list, after a template, under a key, and under a key of a
\* template
Wrappings(v) ==
    { JList(<<v>>),
      JList(<<JObj("text" :> TextB), v>>),
      JObj("child" :> v),
      JObj(("text" :> TextA) @@ ("child" :> v)) }

RECURSIVE Documents(_)
\* the documents nested at most d deep
Documents(d) ==
    IF d = 0 THEN Leaves
    ELSE LET inner == Documents(d - 1)
         IN  inner \cup UNION {Wrappings(v) : v \in inner}

\* the documents convert_json is run on
JsonDocuments == Documents(MaxDepth)

\* the rules of the converter's engine
JsonConfig == "jargon_map" :> << <<<<"a">>, <<"b">>>>, <<<<"b">>, <<"c">>>> >>

\* convert_json line 78: payload = _load_json(input_path)
LoadJson ==
    /\ jpc = "init"
    /\ \E doc \in JsonDocuments :
          /\ loaded' = doc
          /\ payload' = doc
    /\ jpc' = "loaded"
    /\ UNCHANGED <<config, self, engineVars, outcome>>

\* convert_json line 79: simplified = converter.simplify_payload(payload)
Simplify ==
    /\ jpc = "loaded"
    /\ LET r == SimplifyPayload(JsonSimplifierInit(config), payload)
       IN  /\ payload' = r.val
           /\ outcome' = IF r.raised THEN TypeError ELSE r.val
           /\ jpc' = IF r.raised THEN "raised" ELSE "returned"
    /\ UNCHANGED <<config, self, engineVars, loaded>>

\* convert_json line 80: _write_json(output_path, simplified)
WriteJson ==
    /\ jpc = "returned"
    /\ jpc' = "written"
    /\ UNCHANGED <<config, self, engineVars, loaded, payload, outcome>>

\* the converter is done (or has raised): the next run starts afresh
Restart ==
    /\ jpc \in {"written", "raised"}
    /\ jpc' = "init"
    /\ loaded' = Null
    /\ payload' = Null
    /\ outcome' = Null
    /\ UNCHANGED <<config, self, engineVars>>

----------------------------------------------------------------------------
(* Specifications *)

\* the engine is constructed from a configuration document; no call runs
EngineInit(cfgs) ==
    /\ config \in cfgs
    /\ self = EmailSimplifierInit(config)
    /\ pc = [c \in Callers |-> "idle"]
    /\ arg = [c \in Callers |-> <<>>]
    /\ text = [c \in Callers |-> <<>>]
    /\ ri = [c \in Callers |-> 1]
    /\ origin = [c \in Callers |-> <<>>]
    /\ events = [c \in Callers |-> {}]
    /\ log = [c \in Callers |-> <<>>]
    /\ cleaned = [c \in Callers |-> <<>>]
    /\ scan = [c \in Callers |-> NoScan]
    /\ loaded = Null
    /\ payload = Null
    /\ jpc = "init"
    /\ outcome = Null

\* the steps of caller c, which may call with any text of inputs
Step(c, inputs) ==
    \/ Call(c, inputs)
    \/ EarlyReturn(c)
    \/ Normalize(c)
    \/ ApplyRule(c)
    \/ EndPass(c)
    \/ Rewrite(c)
    \/ FinalNormalize(c)
    \/ Return(c)

Init == EngineInit(Configs)

\* one caller: bulk_convert and JsonSimplifier call simplify_text in sequence
Next == Step(1, Inputs)

Spec == Init /\ [][Next]_vars

\* the texts and rules of the concurrent requests
ConcInputs == {<<>>, <<"a">>, <<"B", ",", " ", "a">>}
ConcConfigs ==
    { "jargon_map" :> << <<<<"a">>, <<"b">>>>, <<<<"b">>, <<"c">>>> >>,
      ("tone_map" :> << <<<<"b">>, <<"a", " ", "a">>>> >>)
         @@ ("patterns" :> << [search |-> <<"a", " ">>, replace |-> <<"b">>] >>)
         @@ ("sentence_length_limit" :> 1) }

InitConc == EngineInit(ConcConfigs)

\* api.py: one engine for all requests, which the server runs concurrently
NextConc == \E c \in Callers : Step(c, ConcInputs)

SpecConc == InitConc /\ [][NextConc]_vars

InitJson == EngineInit({JsonConfig})

\* json_convert.py: convert_json
NextJson ==
    \/ LoadJson
    \/ Simplify
    \/ WriteJson
    \/ Restart

SpecJson == InitJson /\ [][NextJson]_vars

----------------------------------------------------------------------------
(* Properties of simplify_text *)

Done(c) == pc[c] = "done"

\* the configuration documents the properties name
ChainConfig == "jargon_map" :> << <<<<"a">>, <<"b">>>>, <<<<"b">>, <<"c">>>> >>
IdConfig == "jargon_map" :> << <<<<"i", "d">>, <<"i","d","e","n","t","i","t","y">>>> >>

\* the number of whitespace-delimited words of s
WordCount(s) ==
    Cardinality({i \in DOMAIN s : ~IsSpace(s[i]) /\ (i = 1 \/ IsSpace(s[i - 1]))})

HasComma(s) == \E i \in DOMAIN s : s[i] = ","

\* s with a period appended unless it ends in terminal punctuation
EnsureTerminal(s) ==
    IF s # <<>> /\ s[Len(s)] \in {".", "!", "?"} THEN s ELSE s \o <<".">>

\* C1: simplify_text runs whitespace-normalize, jargon_map, tone_map,
\* patterns, kyc_documents, sentence-rewrite, whitespace-normalize, each once
\* and each on the output of the pass before it: the pattern pass reads the
\* jargon- and tone-substituted text and the kyc_documents pass reads the
\* pattern-substituted text.
C1_FixedPassOrder ==
    \A c \in Callers :
        (Done(c) /\ arg[c] # <<>>) =>
            /\ [i \in DOMAIN log[c] |-> log[c][i].pass]
                 = <<"normalize", "jargon", "tone", "patterns", "kyc", "rewrite",
                     "normalize">>
            /\ log[c][1].out = NormalizeWhitespace(arg[c])
            /\ log[c][2].out = ApplyWordMap(log[c][1].out, self.jargon_map)
            /\ log[c][3].out = ApplyWordMap(log[c][2].out, self.tone_map)
            /\ log[c][4].out = ApplyPatterns(log[c][3].out, self.patterns)
            /\ log[c][5].out = ApplyWordMap(log[c][4].out, self.kyc_documents)
            /\ log[c][6].out = RewriteSentences(self, log[c][5].out)
            /\ log[c][7].out = NormalizeWhitespace(log[c][6].out)
            /\ text[c] = log[c][7].out

\* a finished call in which every substitution pass changed the text, the
\* pattern matched only what the tone pass wrote and the kyc term matched only
\* what the pattern pass wrote
C1_Witness ==
    \E c \in Callers :
        /\ Done(c)
        /\ Len(log[c]) = 7
        /\ \A k \in 2..5 : log[c][k].out # log[c][k - 1].out
        /\ ApplyPatterns(log[c][1].out, self.patterns) = log[c][1].out
        /\ ApplyWordMap(log[c][3].out, self.kyc_documents) = log[c][3].out

\* C2 as claimed: within one substitution pass no rule's match consumes a
\* character that a rule of the same pass inserted.
C2_NoRescanWithinPass == \A c \in Callers : events[c] = {}

\* C2 as amended: a rule's match never consumes a character that the same
\* rule or a later rule of the pass inserted, but the rules run one after
\* another on the whole text, so a later rule does rewrite what an earlier
\* rule inserted: with jargon_map {a: b, b: c} the input 'a' yields 'c.'.
C2_LaterRulesRescan ==
    \A c \in Callers :
        /\ \A e \in events[c] : e[3] < e[2]
        /\ (config = ChainConfig /\ arg[c] = <<"a">> /\ pc[c] = "jargon" /\ ri[c] = 3)
               => (text[c] = <<"c">> /\ <<"jargon", 2, 1>> \in events[c])
        /\ (config = ChainConfig /\ arg[c] = <<"a">> /\ Done(c))
               => text[c] = <<"c", ".">>

\* the second rule of the jargon map has rewritten the first rule's output
C2_Witness ==
    \E c \in Callers :
        /\ config = ChainConfig
        /\ arg[c] = <<"a">>
        /\ Done(c)
        /\ <<"jargon", 2, 1>> \in events[c]

\* C3: a candidate with more words than the limit and a comma is emitted as
\* exactly two sentences, the first comma segment followed by one period and
\* the remaining segments joined with ', ' ending in one period; with limit 5
\* the example of spec.md section 8 yields 'This is a very long sentence with
\* many words.' and 'and a second clause.'.
C3_SplitEndsInOnePeriod ==
    \A c \in Callers :
        /\ \A i \in DOMAIN cleaned[c] :
              LET s   == cleaned[c][i].s
                  out == cleaned[c][i].out
              IN  (WordCount(s) > self.sentence_length_limit /\ HasComma(s)) =>
                      /\ Len(out) = 2
                      /\ \A k \in 1..2 :
                            /\ out[k] # <<>>
                            /\ out[k][Len(out[k])] = "."
                            /\ Len(out[k]) > 1 => out[k][Len(out[k]) - 1] # "."
        /\ (Done(c) /\ arg[c] = LongCommaSentence /\ self.sentence_length_limit = 5
              /\ self.jargon_map = <<>>)
               => text[c] = SubSeq(LongCommaSentence, 1, 44) \o <<".">>
                              \o SubSeq(LongCommaSentence, 46, 66)

\* C4 as claimed: an engine built from an empty configuration document
\* returns the whitespace-normalized input with '.' appended to every
\* candidate that lacks terminal punctuation, and splits no sentence.
C4_EmptyConfigOnlyPunctuates ==
    \A c \in Callers :
        (config = EmptyConfig /\ Done(c) /\ arg[c] # <<>>) =>
            LET cands == Candidates(NormalizeWhitespace(arg[c]))
            IN  text[c] = Join([i \in DOMAIN cands |-> EnsureTerminal(cands[i])], <<" ">>)

\* C4 as amended: an engine built from an empty configuration document has
\* empty rule tables and sentence_length_limit 22; it returns the
\* whitespace-normalized input with '.' appended to every candidate that
\* lacks terminal punctuation, except that a candidate of more than 22 words
\* that contains a comma is split in two.
C4_EmptyConfigDefaultLimit ==
    config = EmptyConfig =>
        /\ self.jargon_map = <<>> /\ self.tone_map = <<>>
        /\ self.patterns = <<>> /\ self.kyc_documents = <<>>
        /\ self.sentence_length_limit = 22
        /\ \A c \in Callers :
              (Done(c) /\ arg[c] # <<>>) =>
                  LET cands == Candidates(NormalizeWhitespace(arg[c]))
                      split(s) == WordCount(s) > 22 /\ HasComma(s)
                  IN  /\ [i \in DOMAIN cleaned[c] |-> cleaned[c][i].s] = cands
                      /\ \A i \in DOMAIN cands :
                            IF split(cands[i])
                            THEN Len(cleaned[c][i].out) = 2
                            ELSE cleaned[c][i].out = <<EnsureTerminal(cands[i])>>
                      /\ text[c] = Join(ConcatTo([i \in DOMAIN cands |-> cleaned[c][i].out],
                                                 Len(cands)), <<" ">>)

\* an engine with no rules has split a sentence of twenty-three words
C4_Witness ==
    \E c \in Callers :
        /\ config = EmptyConfig
        /\ Done(c)
        /\ arg[c] = TwentyThreeWords
        /\ Len(cleaned[c]) = 1
        /\ Len(cleaned[c][1].out) = 2

\* the term occurs at position i of t, ignoring case
Occurs(t, i, raw) ==
    /\ i + Len(raw) - 1 <= Len(t)
    /\ \A j \in DOMAIN raw : Lower(t[i + j - 1]) = Lower(raw[j])

\* neither neighbour of t[i..i+n-1] is a letter, a digit or an underscore
Standalone(t, i, n) ==
    /\ i = 1 \/ ~IsWord(t[i - 1])
    /\ i + n > Len(t) \/ ~IsWord(t[i + n])

\* position i is replaced by the last re.sub, or lies in a match that began
\* before it
Replaced(c, i) ==
    \E m \in scan[c].starts : m <= i /\ i < m + (IF scan[c].raw = <<>> THEN 1 ELSE Len(scan[c].raw))

\* a rule of the running pass has just been applied
Scanned(c) == pc[c] \in SubstitutionPasses /\ ri[c] > 1

\* C7 as claimed: a word-map pass replaces every standalone occurrence of a
\* mapped term and none that is embedded in a larger token; the pattern pass
\* replaces every occurrence whatever its neighbours; {id: identity} turns
\* 'identification id' into 'identification identity.'.
C7_WholeWordEveryTerm ==
    \A c \in Callers :
        /\ Scanned(c) =>
              LET t == scan[c].before
                  raw == scan[c].raw
              IN  \A i \in 1..(Len(t) + 1) :
                     /\ (Occurs(t, i, raw) /\ (pc[c] = "patterns" \/ Standalone(t, i, Len(raw))))
                            => (i \in scan[c].starts \/ Replaced(c, i))
                     /\ (i \in scan[c].starts /\ pc[c] # "patterns")
                            => (Occurs(t, i, raw) /\ Standalone(t, i, Len(raw)))
        /\ (config = IdConfig /\ arg[c] = IdentificationId /\ Done(c))
               => text[c] = IdentificationId \o <<"e","n","t","i","t","y",".">>

\* the term begins and ends with a letter, a digit or an underscore
WordEnded(raw) == raw # <<>> /\ IsWord(raw[1]) /\ IsWord(raw[Len(raw)])

\* C7 as amended: the same, for a mapped term that begins and ends with a
\* letter, a digit or an underscore, occurrences being taken left to right
\* without overlap; a term that begins or ends with another character is
\* matched only where that end touches a word character.
C7_WholeWordOfWordTerms ==
    \A c \in Callers :
        /\ Scanned(c) =>
              LET t == scan[c].before
                  raw == scan[c].raw
              IN  \A i \in 1..(Len(t) + 1) :
                     /\ (pc[c] = "patterns" /\ Occurs(t, i, raw))
                            => (i \in scan[c].starts \/ Replaced(c, i))
                     /\ (pc[c] # "patterns" /\ WordEnded(raw)
                           /\ Occurs(t, i, raw) /\ Standalone(t, i, Len(raw)))
                            => (i \in scan[c].starts \/ Replaced(c, i))
                     /\ (i \in scan[c].starts /\ pc[c] # "patterns" /\ WordEnded(raw))
                            => (Occurs(t, i, raw) /\ Standalone(t, i, Len(raw)))
                     /\ (i \in scan[c].starts /\ pc[c] # "patterns" /\ ~WordEnded(raw))
                            => /\ Occurs(t, i, raw)
                               /\ Boundary(t, i) /\ Boundary(t, i + Len(raw))
        /\ (config = IdConfig /\ arg[c] = IdentificationId /\ Done(c))
               => text[c] = IdentificationId \o <<"e","n","t","i","t","y",".">>

\* 'identification id' has been simplified under {id: identity}
C7_Witness ==
    \E c \in Callers :
        /\ config = IdConfig
        /\ arg[c] = IdentificationId
        /\ Done(c)
        /\ text[c] # arg[c] \o <<".">>

\* C9: a candidate is split if and only if it has more words than
\* sentence_length_limit and contains a comma; every other candidate is
\* emitted as exactly one sentence, unchanged when it ends in '.', '!' or '?'
\* and with one '.' appended otherwise.
C9_SplitOnlyWhenLongAndComma ==
    \A c \in Callers :
        /\ pc[c] \in {"final", "done"} /\ arg[c] # <<>> =>
              /\ [i \in DOMAIN cleaned[c] |-> cleaned[c][i].s] = Candidates(log[c][5].out)
              /\ log[c][6].out = Join(ConcatTo([i \in DOMAIN cleaned[c] |-> cleaned[c][i].out],
                                               Len(cleaned[c])), <<" ">>)
        /\ \A i \in DOMAIN cleaned[c] :
              LET s   == cleaned[c][i].s
                  out == cleaned[c][i].out
                  both == WordCount(s) > self.sentence_length_limit /\ HasComma(s)
              IN  /\ Len(out) \in {1, 2}
                  /\ Len(out) = 2 <=> both
                  /\ ~both => out = <<EnsureTerminal(s)>>

\* a candidate longer than the limit, without a comma, was emitted whole
\* with a period appended
C9_Witness ==
    \E c \in Callers :
        /\ Done(c)
        /\ \E i \in DOMAIN cleaned[c] :
              /\ WordCount(cleaned[c][i].s) > self.sentence_length_limit
              /\ ~HasComma(cleaned[c][i].s)
              /\ cleaned[c][i].out = <<cleaned[c][i].s \o <<".">>>>

\* t has no leading or trailing whitespace, no whitespace other than single
\* spaces
IsNormalized(t) ==
    /\ \A i \in DOMAIN t : IsSpace(t[i]) => t[i] = " "
    /\ \A i \in DOMAIN t : t[i] = " " => (i > 1 /\ i < Len(t) /\ t[i + 1] # " ")

AllWhitespace(t) == \A i \in DOMAIN t : IsSpace(t[i])

\* the result is empty, or normalized and ending in terminal punctuation
WellFormedResult(t) ==
    t = <<>> \/ (IsNormalized(t) /\ t[Len(t)] \in {".", "!", "?"})

\* C10 as claimed: the returned string is empty, or whitespace-normalized
\* and ending in '.', '!' or '?'; an empty or whitespace-only input returns
\* the empty string, whatever the rules.
C10_ResultWellFormed ==
    \A c \in Callers :
        Done(c) =>
            /\ WellFormedResult(text[c])
            /\ AllWhitespace(arg[c]) => text[c] = <<>>

\* C10 as amended: the same, except that a whitespace-only input returns
\* the empty string only when no pattern has an empty search string (an
\* empty search string matches the empty text and inserts its replacement).
C10_ResultWellFormedUnlessEmptySearch ==
    \A c \in Callers :
        Done(c) =>
            /\ WellFormedResult(text[c])
            /\ arg[c] = <<>> => text[c] = <<>>
            /\ (AllWhitespace(arg[c])
                  /\ \A k \in DOMAIN self.patterns : self.patterns[k].search # <<>>)
                   => text[c] = <<>>

\* a whitespace-only input has returned the empty string under a config
\* with rules in every table
C10_Witness ==
    \E c \in Callers :
        /\ Done(c)
        /\ arg[c] # <<>>
        /\ AllWhitespace(arg[c])
        /\ text[c] = <<>>
        /\ self.jargon_map # <<>>
        /\ self.patterns # <<>>
        /\ self.kyc_documents # <<>>

----------------------------------------------------------------------------
(* Properties of the shared engine *)

\* C8: simplify_text never writes the engine's rule state, however many
\* callers run it and however their steps interleave, and each call returns
\* what that call returns when run alone on the same input.
C8_SharedEngineReadOnly ==
    /\ [][self' = self /\ config' = config]_vars
    /\ [](\A c \in Callers :
            /\ self = EmailSimplifierInit(config)
            /\ Done(c) => text[c] = SimplifyText(EmailSimplifierInit(config), arg[c]))

\* one call has finished with a rewritten text while another, on a
\* different text, is past the first rule of a substitution pass
C8_Witness ==
    \E c, d \in Callers :
        /\ c # d
        /\ Done(c)
        /\ text[c] # arg[c]
        /\ pc[d] \in SubstitutionPasses
        /\ ri[d] > 1
        /\ arg[d] # arg[c]

----------------------------------------------------------------------------
(* Properties of simplify_payload *)

\* the step into item i of a list
IndexName == <<"[1]", "[2]", "[3]">>

IsIndex(step) == step \in Range(IndexName)

RECURSIVE Paths(_)
\* every path from v to a value in it: a sequence of keys and index names
Paths(v) ==
    {<<>>}
    \cup (IF v.tag = "list"
          THEN UNION {{<<IndexName[i]>> \o q : q \in Paths(v.items[i])} :
                         i \in DOMAIN v.items}
          ELSE {})
    \cup (IF v.tag = "obj"
          THEN UNION {{<<k>> \o q : q \in Paths(v.fields[k])} : k \in DOMAIN v.fields}
          ELSE {})

RECURSIVE At(_, _)
\* the value at path q of v
At(v, q) ==
    IF q = <<>> THEN v
    ELSE IF v.tag = "list"
    THEN At(v.items[CHOOSE i \in DOMAIN IndexName : IndexName[i] = q[1]], Tail(q))
    ELSE At(v.fields[q[1]], Tail(q))

\* v is an object with the text-field key
HasText(v) == v.tag = "obj" /\ "text" \in DOMAIN v.fields

\* v is an object whose text field is a string
IsTemplate(v) == HasText(v) /\ v.fields["text"].tag = "str"

\* the value at q is an item of a list, and q leads to it through object
\* keys first and list items after: no key follows an index
ListEntry(q) ==
    /\ q # <<>>
    /\ IsIndex(q[Len(q)])
    /\ \A i, j \in DOMAIN q : (i < j /\ IsIndex(q[i])) => IsIndex(q[j])

Returned == jpc \in {"returned", "written"}

\* the template v with its text simplified under the output-field key
WithOutput(v) ==
    JObj(("simplified_text" :> JStr(SimplifyText(self, v.fields["text"].val)))
         @@ v.fields)

\* C5 as claimed: every object of the document, at any depth, that has the
\* text-field key with a string value holds the simplified text under the
\* output-field key in the result.
C5_EveryTemplateSimplified ==
    Returned =>
        \A q \in Paths(loaded) :
            IsTemplate(At(loaded, q)) =>
                /\ q \in Paths(outcome)
                /\ At(outcome, q) = WithOutput(At(loaded, q))

\* what simplify_payload does: the objects simplified are exactly the
\* templates that are items of a list reached from the top through object
\* keys and then through lists only; the top-level object, an object that is
\* the value of a key, and everything inside an item that is an object are
\* returned as they were.
C5_ListEntriesSimplified ==
    Returned =>
        \A q \in Paths(loaded) :
            LET v == At(loaded, q)
            IN  /\ q \in Paths(outcome)
                /\ IF IsTemplate(v) /\ ListEntry(q)
                   THEN At(outcome, q) = WithOutput(v)
                   ELSE LET w == At(outcome, q)
                        IN  /\ w.tag = v.tag
                            /\ v.tag = "obj" =>
                                  /\ DOMAIN w.fields = DOMAIN v.fields
                                  /\ \A k \in DOMAIN v.fields :
                                        ~IsContainer(v.fields[k]) => w.fields[k] = v.fields[k]
                            /\ v.tag = "list" =>
                                  /\ Len(w.items) = Len(v.items)
                                  /\ \A i \in DOMAIN v.items :
                                        ~IsContainer(v.items[i]) => w.items[i] = v.items[i]
                            /\ (q = <<>> /\ ~IsContainer(v)) => w = v

\* a template inside a list inside a list was simplified, and the document
\* is written
C5_Witness ==
    /\ jpc = "written"
    /\ \E q \in Paths(loaded) :
          /\ Len(q) >= 2
          /\ ListEntry(q)
          /\ IsTemplate(At(loaded, q))
          /\ At(outcome, q).fields["simplified_text"] = JStr(<<"c", ".">>)
    /\ \E q \in Paths(loaded) : IsTemplate(At(loaded, q)) /\ ~ListEntry(q)

Simplified == jpc \in {"returned", "raised", "written"}

\* C6 as claimed: when any object of the document, at any depth, has the
\* text-field key with a non-string value, simplify_payload raises TypeError
\* and returns no document.
C6_NonStringAlwaysRaises ==
    Simplified =>
        ((\E q \in Paths(loaded) : HasText(At(loaded, q)) /\ ~IsTemplate(At(loaded, q)))
            => (jpc = "raised" /\ outcome = TypeError))

\* what simplify_payload does: it raises TypeError, and returns no document,
\* exactly when an object with a non-string text field is an item of a list
\* reached from the top through object keys and then through lists only;
\* such a value anywhere else is passed over.
C6_NonStringEntryRaises ==
    Simplified =>
        LET bad == \E q \in Paths(loaded) :
                      /\ ListEntry(q)
                      /\ HasText(At(loaded, q))
                      /\ ~IsTemplate(At(loaded, q))
        IN  /\ bad <=> jpc = "raised"
            /\ bad <=> outcome = TypeError

\* an object with a number for text, inside a list under a key, has raised
C6_Witness ==
    /\ jpc = "raised"
    /\ outcome = TypeError
    /\ \E q \in Paths(loaded) :
          /\ Len(q) >= 2
          /\ ~IsIndex(q[1])
          /\ ListEntry(q)
          /\ HasText(At(loaded, q))
          /\ ~IsTemplate(At(loaded, q))

====
